---- MODULE Spec2Model ----
(***************************************************************************)
(* A model of subset_beagle.py: the sample-list loader, the header reader, *)
(* the column selection, the generated shell pipeline (as far as its exit  *)
(* status and its first output line are concerned) and the run of          *)
(* subset_beagle as a sequence of steps.                                   *)
(*                                                                         *)
(* A text (a line, a field, a sample ID) is a sequence of one-character    *)
(* strings.  A file is a record with the lines it holds; of the matrix     *)
(* file only the header line is modelled, because the generated awk        *)
(* program treats every line alike.                                        *)
(***************************************************************************)
EXTENDS Integers, Sequences, FiniteSets, TLC

\* Bounds of the model: sample groups in a header, lines in a sample list.
MaxSamples == 3
MaxLines == 2

TAB == "\t"
NL == "\n"
SP == " "

\* What str.strip() removes and what awk's default FS separates on.
Whitespace == {SP, TAB, NL}

Range(s) == {s[i] : i \in 1..Len(s)}

---------------------------------------------------------------------------
(* Text helpers: str.strip, str.split, str.join, str.endswith.             *)

RECURSIVE lstrip(_)
lstrip(s) ==
    IF s # <<>> /\ Head(s) \in Whitespace THEN lstrip(Tail(s)) ELSE s

RECURSIVE rstrip(_)
rstrip(s) ==
    IF s # <<>> /\ s[Len(s)] \in Whitespace
    THEN rstrip(SubSeq(s, 1, Len(s) - 1))
    ELSE s

strip(s) == rstrip(lstrip(s))

\* s.split(sep): never empty, ''.split(sep) = [''].
RECURSIVE split_from(_, _, _, _)
split_from(s, sep, i, part) ==
    IF i > Len(s) THEN <<part>>
    ELSE IF s[i] = sep THEN <<part>> \o split_from(s, sep, i + 1, <<>>)
    ELSE split_from(s, sep, i + 1, Append(part, s[i]))

split(s, sep) == split_from(s, sep, 1, <<>>)

RECURSIVE join(_, _)
join(parts, sep) ==
    IF parts = <<>> THEN <<>>
    ELSE IF Len(parts) = 1 THEN parts[1]
    ELSE parts[1] \o <<sep>> \o join(Tail(parts), sep)

endswith(name, suffix) ==
    /\ Len(suffix) <= Len(name)
    /\ SubSeq(name, Len(name) - Len(suffix) + 1, Len(name)) = suffix

---------------------------------------------------------------------------
(* read_sample_list and read_header.                                       *)

\* The set built by the loop of read_sample_list: stripped, non-blank lines.
read_sample_list(lines) ==
    {strip(lines[i]) : i \in {j \in 1..Len(lines) : strip(lines[j]) # <<>>}}

\* f.readline().strip(): the first line, or '' at end of file.
read_header(lines) ==
    IF lines = <<>> THEN <<>> ELSE strip(lines[1])

---------------------------------------------------------------------------
(* find_columns_to_keep.                                                   *)

should_keep_ignoring_mode(sample_id, sample_list, remove_mode) ==
    sample_id \in sample_list

should_keep(sample_id, sample_list, remove_mode) ==
    IF remove_mode THEN sample_id \notin sample_list
                   ELSE sample_id \in sample_list

sample_columns_split(i) == <<i + 1, i + 2>>

\* The three awk columns of the group that starts at 0-based field i.
sample_columns(i) == <<i + 1, i + 2, i + 3>>

\* The loop "for i in range(3, len(fields), 3)"; fields[i] of the code is
\* fields[i + 1] here.
RECURSIVE select_loop(_, _, _, _, _)
select_loop(fields, i, sample_list, remove_mode, acc) ==
    IF i >= Len(fields) THEN acc
    ELSE LET sample_id == fields[i + 1]
             keep == should_keep(sample_id, sample_list, remove_mode)
         IN  select_loop(fields, i + 3, sample_list, remove_mode,
                [columns_to_keep |->
                     IF keep THEN acc.columns_to_keep \o sample_columns(i)
                             ELSE acc.columns_to_keep,
                 all_samples |-> acc.all_samples \cup {sample_id},
                 samples_kept |->
                     IF keep THEN acc.samples_kept \cup {sample_id}
                             ELSE acc.samples_kept])

removed_is_all(all_samples, kept) == all_samples

removed_of(all_samples, kept) == all_samples \ kept

never_empty(kept) == FALSE

\* The validation "if not samples_kept".
no_samples_remain(kept) == kept = {}

find_columns_to_keep(line, sample_list, remove_mode) ==
    LET fields == split(line, TAB)
        r == select_loop(fields, 3, sample_list, remove_mode,
                 [columns_to_keep |-> <<1, 2, 3>>,
                  all_samples |-> {},
                  samples_kept |-> {}])
    IN  [exits |-> no_samples_remain(r.samples_kept),
         columns_to_keep |-> r.columns_to_keep,
         samples_kept |-> r.samples_kept,
         samples_removed |-> removed_of(r.all_samples, r.samples_kept)]

---------------------------------------------------------------------------
(* generate_awk_command: the awk program and the shell pipeline.           *)

\* awk's field splitting with the default FS (the command sets OFS only):
\* leading and trailing blanks are dropped and every run of blanks separates.
RECURSIVE awk_fields_from(_, _, _)
awk_fields_from(s, i, part) ==
    LET done == IF part = <<>> THEN <<>> ELSE <<part>>
    IN  IF i > Len(s) THEN done
        ELSE IF s[i] \in Whitespace THEN done \o awk_fields_from(s, i + 1, <<>>)
        ELSE awk_fields_from(s, i + 1, Append(part, s[i]))

awk_fields(s) == awk_fields_from(s, 1, <<>>)

\* {OFS="\t"; print $c1,$c2,...}: a field past NF is empty; ORS ends the line.
awk_print(line, columns) ==
    LET F == awk_fields(line)
    IN  join([n \in 1..Len(columns) |->
                 IF columns[n] <= Len(F) THEN F[columns[n]] ELSE <<>>], TAB)
        \o <<NL>>

\* File names are sequences of name parts, the suffixes being parts.
GZ == <<".gz">>
BEAGLE == <<".beagle">>
BEAGLE_GZ == <<".beagle", ".gz">>

\* "Add .beagle extension if needed".
with_extension(name) ==
    IF ~endswith(name, BEAGLE) /\ ~endswith(name, BEAGLE_GZ)
    THEN name \o BEAGLE
    ELSE name

\* The stages of the pipeline built for bash -c; pv_cmd is pv or cat.
generate_awk_command(input_name, output_name) ==
    LET input_is_gz == endswith(input_name, GZ)
        output_is_gz == endswith(output_name, GZ) \/ endswith(output_name, BEAGLE_GZ)
    IN  IF input_is_gz /\ output_is_gz THEN <<"zcat", "pv_cmd", "awk", "gzip">>
        ELSE IF input_is_gz /\ ~output_is_gz THEN <<"zcat", "pv_cmd", "awk">>
        ELSE IF ~input_is_gz /\ output_is_gz THEN <<"pv_cmd", "awk", "gzip">>
        ELSE <<"pv_cmd", "awk">>

\* The status bash -c returns for a pipeline (no pipefail): its last stage's.
pipeline_status(statuses) == statuses[Len(statuses)]

---------------------------------------------------------------------------
(* The inputs of a run.                                                    *)

Markers == << <<"m">>, <<"a", "1">>, <<"a", "2">> >>

S1 == <<"S", "1">>
S2 == <<"S", "2">>
S4 == <<"S", "4">>
\* A sample ID with a blank inside it: one tab-separated field.
SX == <<"S", SP, "X">>

HeaderIds == {S1, S2, SX}

\* A well-formed group repeats the sample ID in its three fields.
RECURSIVE sample_fields(_)
sample_fields(ids) ==
    IF ids = <<>> THEN <<>>
    ELSE <<Head(ids), Head(ids), Head(ids)>> \o sample_fields(Tail(ids))

\* The header line of a matrix file: the markers, one group per ID, and a
\* trailing partial group of `partial` fields of sample S4.
header_of(ids, partial) ==
    join(Markers \o sample_fields(ids) \o [k \in 1..partial |-> S4], TAB)
    \o <<NL>>

Headers ==
    {header_of(ids, partial) :
        ids \in UNION {[1..n -> HeaderIds] : n \in 0..MaxSamples},
        partial \in 0..2}

OutputArgs == {<<"out">>, <<"out", ".beagle", ".gz">>}

\* The file names of an invocation: plain to plain (the output name given
\* without a suffix) and compressed to compressed.
Invocations ==
    {[input |-> <<"in", ".beagle">>, out |-> <<"out">>],
     [input |-> <<"in", ".beagle", ".gz">>, out |-> <<"out", ".beagle", ".gz">>]}

\* What the disk holds at the input path: a header line, nothing, no file.
InputContents ==
    {[exists |-> TRUE, lines |-> <<h>>] : h \in Headers}
    \cup {[exists |-> TRUE, lines |-> <<>>], [exists |-> FALSE, lines |-> <<>>]}

\* Lines of a sample list: a blank line, IDs, an ID followed by a blank.
ListLines ==
    {<<SP, NL>>, S2 \o <<SP, NL>>, SX \o <<NL>>}

ListFiles ==
    {[exists |-> TRUE, lines |-> ls] :
        ls \in UNION {[1..n -> ListLines] : n \in 0..MaxLines}}
    \cup {[exists |-> FALSE, lines |-> <<>>]}

NoFile == [exists |-> FALSE, lines |-> <<>>, empty |-> TRUE]
NoProcess == [state |-> "none", cmd |-> <<>>, statuses |-> <<>>]

---------------------------------------------------------------------------
(* subset_beagle, step by step.                                            *)

VARIABLES
    pc,               \* where the run is
    run,              \* 1: the first invocation, 2: a second one on its output
    history,          \* the steps this run has executed, in order
    input_file,       \* --input: its name and what the disk holds
    list_file,        \* --keep / --remove: what the disk holds
    output_arg,       \* --out as given
    remove_mode,
    output_file,      \* the output name after "Add .beagle extension"
    sample_list,
    header_line,
    total_samples,
    columns_to_keep,
    samples_kept,
    samples_removed,
    not_found,        \* the IDs of the "not found in file" warning
    process,          \* the bash -c child
    return_code,
    disk_output,      \* what the disk holds at output_file
    error,            \* why the run exited with code 1, "" if it did not
    first_output      \* the lines the first invocation wrote

vars == <<pc, run, history, input_file, list_file, output_arg, remove_mode,
          output_file, sample_list, header_line, total_samples,
          columns_to_keep, samples_kept, samples_removed, not_found, process,
          return_code, disk_output, error, first_output>>

inputs == <<input_file, list_file, output_arg, remove_mode, run, first_output>>
selection == <<columns_to_keep, samples_kept, samples_removed, not_found>>
transform == <<process, return_code, disk_output>>

Init ==
    /\ pc = "Idle"
    /\ history = <<>>
    /\ output_file = <<>>
    /\ sample_list = {}
    /\ header_line = <<>>
    /\ total_samples = 0
    /\ columns_to_keep = <<>>
    /\ samples_kept = {}
    /\ samples_removed = {}
    /\ not_found = {}
    /\ process = NoProcess
    /\ return_code = 0
    /\ disk_output = NoFile
    /\ error = ""
    /\ run = 1
    /\ first_output = <<>>
    /\ \E inv \in Invocations, content \in InputContents :
          /\ input_file = [name |-> inv.input, exists |-> content.exists,
                           lines |-> content.lines]
          /\ output_arg = inv.out
    /\ list_file \in ListFiles
    /\ remove_mode \in BOOLEAN

exit_then_retry(step, why) ==
    /\ pc' = "Idle"
    /\ error' = why
    /\ history' = Append(history, step)

\* sys.exit(1) after the message for `why`.
Exit1(step, why) ==
    /\ pc' = "Failed"
    /\ error' = why
    /\ history' = Append(history, step)

Goto(step, next) ==
    /\ pc' = next
    /\ history' = Append(history, step)
    /\ UNCHANGED error

\* "Validate input file" and "Add .beagle extension if needed".
ValidateInput ==
    /\ pc = "Idle"
    /\ IF ~input_file.exists
       THEN /\ Exit1("validate", "NotFound")
            /\ UNCHANGED output_file
       ELSE /\ Goto("validate", "Validated")
            /\ output_file' = with_extension(output_arg)
    /\ UNCHANGED <<inputs, sample_list, header_line, total_samples, selection,
                   transform>>

\* [1/4] read_sample_list.
LoadSampleList ==
    /\ pc = "Validated"
    /\ IF ~list_file.exists
       THEN /\ Exit1("read_sample_list", "NotFound")
            /\ UNCHANGED sample_list
       ELSE IF read_sample_list(list_file.lines) = {}
       THEN /\ Exit1("read_sample_list", "EmptySampleList")
            /\ UNCHANGED sample_list
       ELSE /\ Goto("read_sample_list", "ListLoaded")
            /\ sample_list' = read_sample_list(list_file.lines)
    /\ UNCHANGED <<inputs, output_file, header_line, total_samples, selection,
                   transform>>

\* [2/4] read_header and the reported total.
ReadHeader ==
    /\ pc = "ListLoaded"
    /\ Goto("read_header", "HeaderRead")
    /\ header_line' = read_header(input_file.lines)
    /\ total_samples' = (Len(split(read_header(input_file.lines), TAB)) - 3) \div 3
    /\ UNCHANGED <<inputs, output_file, sample_list, selection, transform>>

\* The "not found in file" set of the report, per mode.
report_not_found(list, kept, removed, mode) ==
    IF mode THEN (list \ removed) \ kept ELSE list \ kept

\* [3/4] find_columns_to_keep and the report.
SelectColumns ==
    /\ pc = "HeaderRead"
    /\ LET r == find_columns_to_keep(header_line, sample_list, remove_mode)
       IN  IF r.exits
           THEN /\ Exit1("find_columns_to_keep", "EmptySelection")
                /\ UNCHANGED selection
           ELSE /\ Goto("find_columns_to_keep", "Selected")
                /\ columns_to_keep' = r.columns_to_keep
                /\ samples_kept' = r.samples_kept
                /\ samples_removed' = r.samples_removed
                /\ not_found' = report_not_found(sample_list, r.samples_kept,
                                                 r.samples_removed, remove_mode)
    /\ UNCHANGED <<inputs, output_file, sample_list, header_line, total_samples,
                   transform>>

\* [4/4] generate_awk_command and subprocess.Popen; a Popen that raises is
\* caught by "except Exception".
StartTransformer ==
    /\ pc = "Selected"
    /\ \E spawned \in BOOLEAN :
          IF spawned
          THEN /\ Goto("popen", "Transforming")
               /\ process' = [state |-> "running",
                              cmd |-> generate_awk_command(input_file.name, output_file),
                              statuses |-> <<>>]
          ELSE /\ Exit1("popen", "TransformFailed")
               /\ UNCHANGED process
    /\ UNCHANGED <<inputs, output_file, sample_list, header_line, total_samples,
                   selection, return_code, disk_output>>

\* What the pipeline leaves at the output path.  The shell creates the file
\* when it can open it; a stage that fails passes nothing on, the stages after
\* it see an empty input and end with status 0; gzip writes its header and
\* trailer even for an empty input.
written(cmd, broken, lines, columns) ==
    [exists |-> TRUE,
     lines |-> IF broken = 0
               THEN [n \in 1..Len(lines) |-> awk_print(lines[n], columns)]
               ELSE <<>>,
     empty |-> IF cmd[Len(cmd)] = "gzip" THEN broken = Len(cmd)
               ELSE broken # 0 \/ lines = <<>>]

\* The child ends: `opens` is whether the shell could open the output path,
\* `broken` the stage that failed (0: none).  With the redirection failing the
\* last stage is not run and counts as failed.
TransformerTerminates ==
    /\ pc = "Transforming"
    /\ process.state = "running"
    /\ \E opens \in BOOLEAN :
       \E broken \in (IF opens THEN 0..Len(process.cmd) ELSE {Len(process.cmd)}) :
          /\ process' = [process EXCEPT
                !.state = "exited",
                !.statuses = [k \in 1..Len(process.cmd) |->
                                 IF k = broken THEN 1 ELSE 0]]
          /\ disk_output' = IF opens
                            THEN written(process.cmd, broken, input_file.lines,
                                         columns_to_keep)
                            ELSE disk_output
    /\ UNCHANGED <<pc, history, error, inputs, output_file, sample_list,
                   header_line, total_samples, selection, return_code>>

\* process.wait() returns once the child has ended.
wait_returns(p) == p.state = "exited"

never_failed(code) == FALSE

\* "if return_code != 0".
awk_failed(code) == code # 0

\* "Wait for completion", the return code check and "Check if output file was
\* created".
WaitAndVerify ==
    /\ pc = "Transforming"
    /\ wait_returns(process)
    /\ return_code' = pipeline_status(process.statuses)
    /\ IF awk_failed(return_code')
       THEN Exit1("wait", "TransformFailed")
       ELSE IF disk_output.exists
       THEN Goto("wait", "Succeeded")
       ELSE Exit1("wait", "TransformFailed")
    /\ UNCHANGED <<inputs, output_file, sample_list, header_line, total_samples,
                   selection, process, disk_output>>

\* The program is invoked again, in keep mode with the same sample list, on
\* the file the first invocation wrote.
Rerun ==
    /\ pc = "Succeeded"
    /\ run = 1
    /\ ~remove_mode
    /\ disk_output.lines # <<>>
    /\ run' = 2
    /\ first_output' = disk_output.lines
    /\ input_file' = [name |-> output_file, exists |-> TRUE,
                      lines |-> disk_output.lines]
    /\ output_arg' \in OutputArgs \ {output_arg}
    /\ pc' = "Idle"
    /\ history' = <<>>
    /\ output_file' = <<>>
    /\ sample_list' = {}
    /\ header_line' = <<>>
    /\ total_samples' = 0
    /\ columns_to_keep' = <<>>
    /\ samples_kept' = {}
    /\ samples_removed' = {}
    /\ not_found' = {}
    /\ process' = NoProcess
    /\ return_code' = 0
    /\ disk_output' = NoFile
    /\ error' = ""
    /\ UNCHANGED <<list_file, remove_mode>>

Next ==
    \/ ValidateInput
    \/ LoadSampleList
    \/ ReadHeader
    \/ SelectColumns
    \/ StartTransformer
    \/ TransformerTerminates
    \/ WaitAndVerify
    \/ Rerun

Spec == Init /\ [][Next]_vars

---------------------------------------------------------------------------
(* Vocabulary of the properties.  A header is read as the matrix format    *)
(* defines it: three marker fields, then groups of three fields, the first *)
(* field of a group being the sample ID.  The operators take the header's  *)
(* tab-separated fields f.                                                 *)

\* The number of complete groups of three after the markers.
Groups(f) == IF Len(f) < 3 THEN 0 ELSE (Len(f) - 3) \div 3

\* The sample IDs of the complete groups, in header order.
GroupIds(f) == [k \in 1..Groups(f) |-> f[3 * k + 1]]

HeaderSamples(f) == {f[3 * k + 1] : k \in 1..Groups(f)}

\* No trailing partial group.
Complete(f) == Len(f) >= 3 /\ (Len(f) - 3) % 3 = 0

\* No two groups, a trailing partial group included, carry the same ID.
DistinctIds(f) ==
    LET positions == {i \in 4..Len(f) : i % 3 = 1}
    IN  \A i, j \in positions : i # j => f[i] # f[j]

WellFormed(f) == Complete(f) /\ DistinctIds(f)

\* The samples the mode asks to retain.
Wanted(f) ==
    IF remove_mode THEN HeaderSamples(f) \ sample_list
                   ELSE HeaderSamples(f) \cap sample_list

\* The selection is the step the run has just made.
SelectionDone ==
    history # <<>> /\ history[Len(history)] = "find_columns_to_keep"
SelectionFailed == SelectionDone /\ pc = "Failed"
\* find_columns_to_keep has just returned its tuple.
Returned == SelectionDone /\ pc = "Selected"

IsPrefix(s, t) == Len(s) <= Len(t) /\ SubSeq(t, 1, Len(s)) = s

StrictlyIncreasing(s) == \A i \in 1..(Len(s) - 1) : s[i] < s[i + 1]

---------------------------------------------------------------------------
(* Properties.                                                             *)

\* C1: for a header of complete groups with distinct IDs, when
\* find_columns_to_keep returns, the kept set is the header's samples that are
\* in the list (keep mode) or that are not in the list (remove mode).
C1_KeptMatchesMode ==
    Returned =>
        LET f == split(header_line, TAB)
        IN  WellFormed(f) => samples_kept = Wanted(f)

\* The remove-mode example of C1: three samples, the middle one listed.
C1_Witness ==
    /\ Returned /\ remove_mode
    /\ LET f == split(header_line, TAB)
       IN  WellFormed(f) /\ GroupIds(f) = <<S1, S2, SX>>
    /\ sample_list = {S2}
    /\ samples_kept = {S1, SX}
    /\ samples_removed = {S2}
    /\ columns_to_keep = <<1, 2, 3, 4, 5, 6, 10, 11, 12>>

\* C2: for a header of N complete groups with distinct IDs, kept and removed
\* are disjoint, their union is the header's samples, their sizes add up to N
\* (which is the reported total), and the reported not-found set is the list
\* minus the header's samples, disjoint from kept and removed.
C2_Partition ==
    Returned =>
        LET f == split(header_line, TAB)
        IN  WellFormed(f) =>
               /\ samples_kept \cap samples_removed = {}
               /\ samples_kept \cup samples_removed = HeaderSamples(f)
               /\ Cardinality(samples_kept) + Cardinality(samples_removed)
                     = Groups(f)
               /\ Groups(f) = total_samples
               /\ not_found = sample_list \ HeaderSamples(f)
               /\ not_found \cap (samples_kept \cup samples_removed) = {}

C2_Witness ==
    /\ Returned /\ remove_mode
    /\ WellFormed(split(header_line, TAB))
    /\ samples_kept # {}
    /\ samples_removed # {}
    /\ not_found # {}

\* C3: with distinct sample IDs, a returned plan has 3 + 3 * |kept| entries,
\* starts with 1, 2, 3, is strictly increasing, and after the markers consists
\* of whole groups 3k+1, 3k+2, 3k+3 (k >= 1) of kept samples, one per kept
\* sample.
C3_PlanShape ==
    Returned =>
        LET f == split(header_line, TAB)
            plan == columns_to_keep
            groups == (Len(plan) \div 3) - 1
        IN  DistinctIds(f) =>
               /\ Len(plan) = 3 + 3 * Cardinality(samples_kept)
               /\ SubSeq(plan, 1, 3) = <<1, 2, 3>>
               /\ StrictlyIncreasing(plan)
               /\ \A g \in 1..groups :
                     /\ plan[3 * g + 1] % 3 = 1
                     /\ plan[3 * g + 1] > 3
                     /\ plan[3 * g + 2] = plan[3 * g + 1] + 1
                     /\ plan[3 * g + 3] = plan[3 * g + 1] + 2
                     /\ plan[3 * g + 1] <= Len(f)
                     /\ f[plan[3 * g + 1]] \in samples_kept
               /\ samples_kept = {f[plan[3 * g + 1]] : g \in 1..groups}

\* Two kept samples around a removed one, the list naming them in the other
\* order.
C3_Witness ==
    /\ Returned /\ ~remove_mode
    /\ list_file.lines = <<SX \o <<NL>>, S2 \o <<SP, NL>>>>
    /\ GroupIds(split(header_line, TAB)) = <<S2, S1, SX>>
    /\ columns_to_keep = <<1, 2, 3, 4, 5, 6, 10, 11, 12>>

\* C4: on a header without a partial group the selection fails with
\* EmptySelection, returning no plan, exactly when no header sample would be
\* kept; otherwise the run proceeds, absent IDs or not; a returned plan has at
\* least 6 entries.
C4_EmptySelection ==
    SelectionDone =>
        LET f == split(header_line, TAB)
        IN  /\ Complete(f) => (SelectionFailed <=> Wanted(f) = {})
            /\ SelectionFailed => columns_to_keep = <<>> /\ samples_kept = {}
            /\ (Complete(f) /\ Wanted(f) # {}) => pc = "Selected"
            /\ SelectionFailed => error = "EmptySelection"
            /\ Returned => Len(columns_to_keep) >= 6

\* A run that goes on although a listed ID is absent from the header.
C4_Witness ==
    /\ pc = "Selected"
    /\ LET f == split(header_line, TAB)
       IN  Complete(f) /\ sample_list \ HeaderSamples(f) # {}
    /\ not_found # {}
    /\ Len(columns_to_keep) = 6

\* The stages of a run, and where the run stands after each.
StageOrder ==
    <<"validate", "read_sample_list", "read_header", "find_columns_to_keep",
      "popen", "wait">>
StandsAt ==
    <<"Idle", "Validated", "ListLoaded", "HeaderRead", "Selected",
      "Transforming", "Succeeded">>

\* The child has ended, and the status bash hands to wait().
Ended == process.state = "exited"
ChildStatus == process.statuses[Len(process.statuses)]

\* C5: a run ends in success only with an output file that exists and is not
\* empty.
C5_SuccessOnlyWithOutput ==
    pc = "Succeeded" => disk_output.exists /\ ~disk_output.empty

\* C6: the run reaches its verdict only after the child has ended, the return
\* code is the child's status, and a non-zero status ends the run as
\* TransformFailed, never as a success.
C6_NonZeroSurfaced ==
    /\ "wait" \in Range(history) => Ended /\ return_code = ChildStatus
    /\ pc = "Succeeded" => Ended /\ ChildStatus = 0
    /\ (Ended /\ ChildStatus # 0 /\ pc # "Transforming") =>
           pc = "Failed" /\ error = "TransformFailed"

\* The last stage of the pipeline failed and the run ended with code 1.
C6_Witness ==
    /\ Ended /\ ChildStatus # 0 /\ return_code # 0
    /\ disk_output.exists
    /\ pc = "Failed" /\ error = "TransformFailed"

\* C7: the steps of a run are executed at most once and in the order of
\* StageOrder; a failed run executes nothing more; the child is started and
\* the output written only after a successful selection; a sample list with
\* only blank lines fails with EmptySampleList before the header is read.
C7_StagesInOrder ==
    /\ IsPrefix(history, StageOrder)
    /\ pc # "Failed" => pc = StandsAt[Len(history) + 1]
    /\ pc = "Failed" => error # "" /\ ~ENABLED Next
    /\ (process.state # "none" \/ disk_output.exists) =>
           /\ IsPrefix(SubSeq(StageOrder, 1, 5), history)
           /\ samples_kept # {}
           /\ error \in {"", "TransformFailed"}
    /\ error = "EmptySampleList" =>
           /\ history = SubSeq(StageOrder, 1, 2)
           /\ header_line = <<>>
    /\ ( /\ "read_sample_list" \in Range(history)
         /\ list_file.exists
         /\ \A n \in 1..Len(list_file.lines) : strip(list_file.lines[n]) = <<>> )
       => pc = "Failed" /\ error = "EmptySampleList"

\* A list of blank lines only has ended the run.
C7_Witness ==
    /\ list_file.exists /\ Len(list_file.lines) = MaxLines
    /\ input_file.lines # <<>>
    /\ pc = "Failed" /\ error = "EmptySampleList"
    /\ history = <<"validate", "read_sample_list">>

\* C8: on a header without a partial group, keep mode with list S and remove
\* mode with the header's samples outside S either both fail with
\* EmptySelection or return the same kept set.
C8_KeepRemoveComplement ==
    (SelectionDone /\ ~remove_mode) =>
        LET f == split(header_line, TAB)
            other == find_columns_to_keep(header_line,
                         HeaderSamples(f) \ sample_list, TRUE)
        IN  Complete(f) =>
               /\ SelectionFailed <=> other.exits
               /\ Returned => other.samples_kept = samples_kept

C8_Witness ==
    /\ Returned /\ ~remove_mode
    /\ LET f == split(header_line, TAB)
       IN  /\ Complete(f)
           /\ HeaderSamples(f) \ sample_list # {}
           /\ Cardinality(samples_kept) = 2

\* C9: a second keep run with the same list on the file the first run wrote
\* does not fail in the selection and, its pipeline intact, writes the lines
\* the first run wrote.
C9_KeepIdempotent ==
    run = 2 =>
        /\ ~(pc = "Failed" /\ error = "EmptySelection")
        /\ (Ended /\ process.statuses = [k \in 1..Len(process.cmd) |-> 0]
                  /\ disk_output.exists)
              => disk_output.lines = first_output

\* C10: a trailing partial group is ignored: every plan index is a field of
\* the header, kept and removed hold only samples of complete groups, and with
\* distinct IDs as many samples are processed as the reported total.
C10_PartialGroupIgnored ==
    Returned =>
        LET f == split(header_line, TAB)
        IN  /\ \A n \in 1..Len(columns_to_keep) : columns_to_keep[n] <= Len(f)
            /\ samples_kept \cup samples_removed \subseteq HeaderSamples(f)
            /\ DistinctIds(f) =>
                  Cardinality(samples_kept \cup samples_removed) = total_samples

====
